---- MODULE Spec2Model ----
(***************************************************************************)
(* Model of the Backend-Mediguide maintenance script fix_connections.py    *)
(* (the connection repair auditor) and of the rule-based safety layer of   *)
(* ChatbotService.generate_response.                                       *)
(***************************************************************************)
EXTENDS Integers, Sequences, FiniteSets, TLC

VARIABLES
    family_connections, \* the "family_connections" table: a sequence of rows
    profiles,           \* the "profiles" table: user id -> row, or NoProfile
    pc,                 \* position of fix_bad_connections
    connections,        \* local: res.data or [] (the snapshot fetched at line 11)
    idx,                \* local: position of the for loop in connections
    sender_actual_name, \* local: line 28
    trace,              \* standard output of the current invocation
    updates,            \* update calls issued by the current invocation, in order
    runs,               \* number of invocations that ran to completion
    finals,             \* the table as each completed invocation left it
    aborts,             \* number of invocations killed before completion
    initial,            \* the table before the first invocation
    chat_pc,            \* position of ChatbotService.generate_response
    question,           \* argument: the user's question, a sequence of characters
    parameters,         \* argument: the report's parameters
    explanations,       \* argument: the stored explanations
    context_str,        \* local: the context built for the model
    groq_calls,         \* the user questions sent to the Groq completion API
    response            \* the value generate_response returned

auditVars == <<family_connections, profiles, pc, connections, idx,
               sender_actual_name, trace, updates, runs, finals, aborts, initial>>

chatVars == <<chat_pc, question, parameters, explanations, context_str,
              groq_calls, response>>

vars == <<auditVars, chatVars>>

----------------------------------------------------------------------------
\* Bounds of the model.
MaxConns == 2
MaxRuns == 2
MaxAborts == 1

\* Python's None (a NULL column, a missing key, an absent row).
None == "<None>"

Users == {"u1", "u2"}
FullNames == {None, "", "Alice"}
ProfileNames == {None, "Al"}
SenderDisplayNames == {None, "Alice", "Nick"}
ReceiverDisplayNames == {None, "Alice", "Nick"}

\* A row of "profiles"; NoProfile stands for the None that .data holds when
\* no row matches.
ProfileRows(u) == [id : {u}, full_name : FullNames, profile_name : ProfileNames]
BobRow == [id |-> "u2", full_name |-> "Bob", profile_name |-> None]
NoProfile == [id |-> None, full_name |-> None, profile_name |-> None]

ConnRows(id) ==
    { [id |-> id, user_id |-> u, connected_user_id |-> CHOOSE v \in Users : v # u,
       sender_display_name |-> s, receiver_display_name |-> r] :
         u \in Users, s \in SenderDisplayNames, r \in ReceiverDisplayNames }

----------------------------------------------------------------------------
\* Python truthiness of an optional string: None and "" are falsy.
Truthy(x) == x # None /\ x # ""

\* sender_profile.get("full_name") or sender_profile.get("profile_name")
CanonicalName(profile) ==
    IF Truthy(profile.full_name) THEN profile.full_name ELSE profile.profile_name

\* .table("profiles").select("*").eq("id", user_id).single().execute().data
FetchProfileRow(user_id) == profiles[user_id]

\* The profile the loop body looks up for a connection: the SENDER's.
SenderProfile(conn) == FetchProfileRow(conn.user_id)

\* if not sender_profile
ProfileMissing(profile) == profile = NoProfile

\* A loop that breaks at a missing profile instead of skipping the record.
BreakLoop(i, conns) == Len(conns) + 1

\* continue: the loop goes on with the record after position i.
Continue(i, conns) == i + 1

\* A detector that takes any saved sender display name for the sender's own.
SenderHasAnyName(conn, name) == conn.sender_display_name # None

\* A detector that looks for an empty receiver display name, not a NULL one.
ReceiverIsEmpty(conn) == conn.receiver_display_name = ""

\* A detector that needs both signatures at once.
BugFoundBoth(conn, name) ==
    conn.sender_display_name = name /\ conn.receiver_display_name = None

\* The two violation conditions, evaluated independently.
SenderSeesOwnName(conn, name) == conn.sender_display_name = name
ReceiverSeesNull(conn) == conn.receiver_display_name = None
BugFound(conn, name) == SenderSeesOwnName(conn, name) \/ ReceiverSeesNull(conn)

\* An update that writes the saved sender display name to the receiver side.
UpdateDataSavedName(conn, name) ==
    [sender_display_name |-> None, receiver_display_name |-> conn.sender_display_name]

\* An update that leaves the sender side as it was.
UpdateDataKeepSender(conn, name) ==
    [sender_display_name |-> conn.sender_display_name, receiver_display_name |-> name]

\* update_data
UpdateData(conn, name) ==
    [sender_display_name |-> None, receiver_display_name |-> name]

\* An update without its .eq("id", conn_id) filter.
UpdateAllRows(table, conn_id, data) ==
    [k \in DOMAIN table |->
        [table[k] EXCEPT !.sender_display_name = data.sender_display_name,
                         !.receiver_display_name = data.receiver_display_name]]

\* .table("family_connections").update(update_data).eq("id", conn_id).execute()
UpdateRows(table, conn_id, data) ==
    [k \in DOMAIN table |->
        IF table[k].id = conn_id
        THEN [table[k] EXCEPT !.sender_display_name = data.sender_display_name,
                              !.receiver_display_name = data.receiver_display_name]
        ELSE table[k]]

\* How an f-string prints an optional string.
Fmt(x) == IF x = None THEN "None" ELSE x

Line(kind, id, val) == [kind |-> kind, id |-> id, val |-> val]

\* The lines printed for one record between the profile fetch and the update.
CheckLines(conn, name) ==
    << Line("Checking", conn.id, <<>>),
       Line("Sender", conn.id, <<Fmt(name), conn.user_id>>),
       Line("Target", conn.id, <<conn.connected_user_id>>),
       Line("SavedSender", conn.id, <<Fmt(conn.sender_display_name)>>),
       Line("SavedReceiver", conn.id, <<Fmt(conn.receiver_display_name)>>) >>

\* Detection output without the line that announces the update.
DetectLinesNoFixing(conn, name) ==
    (IF conn.sender_display_name = name
        THEN << Line("SuspiciousSender", conn.id, <<>>) >> ELSE << >>)
    \o (IF conn.receiver_display_name = None
        THEN << Line("SuspiciousReceiver", conn.id, <<>>) >> ELSE << >>)

DetectLines(conn, name) ==
    (IF SenderSeesOwnName(conn, name)
        THEN << Line("SuspiciousSender", conn.id, <<>>) >> ELSE << >>)
    \o (IF ReceiverSeesNull(conn)
        THEN << Line("SuspiciousReceiver", conn.id, <<>>) >> ELSE << >>)
    \o (IF BugFound(conn, name)
        THEN << Line("Fixing", conn.id, <<>>) >> ELSE << >>)

----------------------------------------------------------------------------
Running == pc \in {"loop", "inspect", "update", "fixed"}

AuditInit ==
    /\ \E p \in ProfileRows("u1") \cup {NoProfile} :
          profiles = [u \in Users |-> IF u = "u1" THEN p ELSE BobRow]
    /\ \E n \in 0..MaxConns :
          family_connections \in
             { t \in [1..n -> UNION { ConnRows(k) : k \in 1..n }] :
                  \A k \in 1..n : t[k].id = k }
    /\ initial = family_connections
    /\ pc = "start"
    /\ connections = << >>
    /\ idx = 0
    /\ sender_actual_name = None
    /\ trace = << >>
    /\ updates = << >>
    /\ runs = 0
    /\ finals = << >>
    /\ aborts = 0

\* Lines 7-13: fetch every connection and announce the count.
Start ==
    /\ pc = "start"
    /\ connections' = family_connections
    /\ trace' = << Line("Starting", 0, <<>>),
                   Line("Found", 0, <<ToString(Len(family_connections))>>) >>
    /\ idx' = 1
    /\ pc' = "loop"
    /\ UNCHANGED <<family_connections, profiles, sender_actual_name, updates,
                   runs, finals, aborts, initial, chatVars>>

\* Lines 15-26: take the next record and fetch the sender's profile.
FetchProfile ==
    /\ pc = "loop"
    /\ idx <= Len(connections)
    /\ LET conn == connections[idx]
           sender_profile == SenderProfile(conn)
       IN IF ProfileMissing(sender_profile)
          THEN /\ idx' = Continue(idx, connections)
               /\ pc' = "loop"
          ELSE /\ idx' = idx
               /\ pc' = "inspect"
    /\ UNCHANGED <<family_connections, profiles, connections, sender_actual_name,
                   trace, updates, runs, finals, aborts, initial, chatVars>>

\* Lines 28-52: compute the canonical name, print the record, detect.
Inspect ==
    /\ pc = "inspect"
    /\ LET conn == connections[idx]
           name == CanonicalName(SenderProfile(conn))
       IN /\ sender_actual_name' = name
          /\ trace' = trace \o CheckLines(conn, name) \o DetectLines(conn, name)
          /\ IF BugFound(conn, name)
             THEN /\ pc' = "update"
                  /\ idx' = idx
             ELSE /\ pc' = "loop"
                  /\ idx' = idx + 1
    /\ UNCHANGED <<family_connections, profiles, connections, updates,
                   runs, finals, aborts, initial, chatVars>>

\* Lines 58-63: the corrective update.
Update ==
    /\ pc = "update"
    /\ LET conn == connections[idx]
           data == UpdateData(conn, sender_actual_name)
       IN /\ family_connections' = UpdateRows(family_connections, conn.id, data)
          /\ updates' = Append(updates, [id |-> conn.id, data |-> data,
                                         at |-> Len(trace)])
    /\ pc' = "fixed"
    /\ UNCHANGED <<profiles, connections, idx, sender_actual_name, trace,
                   runs, finals, aborts, initial, chatVars>>

\* Line 64.
Fixed ==
    /\ pc = "fixed"
    /\ trace' = Append(trace, Line("Fixed", connections[idx].id, <<>>))
    /\ idx' = idx + 1
    /\ pc' = "loop"
    /\ UNCHANGED <<family_connections, profiles, connections, sender_actual_name,
                   updates, runs, finals, aborts, initial, chatVars>>

\* The for loop is exhausted: the coroutine returns and the process exits.
Finish ==
    /\ pc = "loop"
    /\ idx > Len(connections)
    /\ pc' = "done"
    /\ runs' = runs + 1
    /\ finals' = Append(finals, family_connections)
    /\ UNCHANGED <<family_connections, profiles, connections, idx,
                   sender_actual_name, trace, updates, aborts, initial, chatVars>>

\* The operator invokes the script again (lines 66-67): a fresh process.
Reinvoke ==
    /\ connections' = << >>
    /\ idx' = 0
    /\ sender_actual_name' = None
    /\ trace' = << >>
    /\ updates' = << >>
    /\ pc' = "start"

Rerun ==
    /\ pc = "done"
    /\ runs < MaxRuns
    /\ Reinvoke
    /\ UNCHANGED <<family_connections, profiles, runs, finals, aborts, initial, chatVars>>

\* The process is killed, or a store call raises, anywhere in the run; the
\* operator re-invokes.
Abort ==
    /\ Running
    /\ aborts < MaxAborts
    /\ aborts' = aborts + 1
    /\ Reinvoke
    /\ UNCHANGED <<family_connections, profiles, runs, finals, initial, chatVars>>

----------------------------------------------------------------------------
\* ChatbotService.generate_response

unsafe_keywords ==
    << <<"p","r","e","s","c","r","i","b","e">>,
       <<"m","e","d","i","c","a","t","i","o","n"," ","f","o","r"," ","m","e">>,
       <<"d","i","a","g","n","o","s","e"," ","m","e">>,
       <<"d","o"," ","i"," ","h","a","v","e"," ","c","a","n","c","e","r">>,
       <<"a","m"," ","i"," ","d","y","i","n","g">> >>

LowerLetters ==
    <<"a","b","c","d","e","f","g","h","i","l","m","n","o","p","r","s","t","u","v","w","y">>
UpperLetters ==
    <<"A","B","C","D","E","F","G","H","I","L","M","N","O","P","R","S","T","U","V","W","Y">>

\* str.lower() on one character, and on a string.
LowerChar(c) ==
    IF \E k \in DOMAIN UpperLetters : UpperLetters[k] = c
    THEN LowerLetters[CHOOSE k \in DOMAIN UpperLetters : UpperLetters[k] = c]
    ELSE c
Lower(q) == [k \in DOMAIN q |-> LowerChar(q[k])]

\* k in q: k occurs in q as a contiguous substring.
Contains(q, k) ==
    \E p \in 0..(Len(q) - Len(k)) : \A j \in 1..Len(k) : q[p + j] = k[j]

\* A check on the question as typed.
QAsTyped(q) == q

\* q_lower = question.lower()
QLower(q) == Lower(q)

\* any(k in q_lower for k in unsafe_keywords)
IsUnsafe(q) ==
    \E n \in DOMAIN unsafe_keywords : Contains(QLower(q), unsafe_keywords[n])

RefusalMessage == "I am an AI assistant and cannot provide medical diagnoses or prescribe medication. Please consult a qualified doctor for personal medical advice and treatment options."
FallbackMessage == "I'm having trouble connecting to my knowledge base right now. Please try again later."
Completion == "<chat_completion.choices[0].message.content>"

\* p.get("range") or p.get("normal_range")
RefRange(p) == IF Truthy(p.range) THEN p.range ELSE p.normal_range

\* next((e for e in explanations if e.get("parameter_id") == p.get("id")), None)
HasExplanation(p, expls) == \E k \in DOMAIN expls : expls[k].parameter_id = p.id
FirstExplanation(p, expls) ==
    expls[CHOOSE k \in DOMAIN expls :
            /\ expls[k].parameter_id = p.id
            /\ \A j \in 1..(k - 1) : expls[j].parameter_id # p.id]

\* _build_context_json: one item per parameter, with the meaning of its first
\* explanation when it has one (a truthy one).
BuildContextJson(params, expls) ==
    [k \in DOMAIN params |->
        [name |-> params[k].name,
         ref_range |-> RefRange(params[k]),
         explanation_meaning |->
            IF HasExplanation(params[k], expls)
            THEN FirstExplanation(params[k], expls).meaning
            ELSE "<absent>"]]

\* Inputs of the model.
Prefixes == { << >>, <<"c","a","n"," ","y","o","u"," ">> }
Suffixes == { << >>, <<"?">> }
Styles == {"lower", "upper", "title", "alternating"}

UpperChar(c) ==
    IF \E k \in DOMAIN LowerLetters : LowerLetters[k] = c
    THEN UpperLetters[CHOOSE k \in DOMAIN LowerLetters : LowerLetters[k] = c]
    ELSE c

Styled(k, style) ==
    [j \in DOMAIN k |->
        CASE style = "lower" -> k[j]
          [] style = "upper" -> UpperChar(k[j])
          [] style = "title" -> IF j = 1 \/ k[j - 1] = " " THEN UpperChar(k[j]) ELSE k[j]
          [] OTHER -> IF j % 2 = 1 THEN UpperChar(k[j]) ELSE k[j]]

SafePhrases ==
    { <<"w","h","a","t"," ","i","s"," ","h","e","m","o","g","l","o","b","i","n">>,
      <<"p","r","e","s","c","r","i","b">>,
      <<"p","r","e"," ","s","c","r","i","b","e">>,
      <<"d","i","a","g","n","o","s","e">>,
      <<"a","m"," ","i"," ","d","y","i","n">>,
      <<"d","o"," ","i"," ","h","a","v","e"," ","a"," ","c","o","l","d">> }

Phrases == { unsafe_keywords[n] : n \in DOMAIN unsafe_keywords } \cup SafePhrases

Questions ==
    { pre \o Styled(ph, st) \o suf :
        pre \in Prefixes, ph \in Phrases, st \in Styles, suf \in Suffixes }

Hb == [id |-> 1, name |-> "Hb", range |-> None, normal_range |-> "12-16"]
Wbc == [id |-> 2, name |-> "WBC", range |-> "4-11", normal_range |-> None]
ParameterLists == { << >>, <<Hb>>, <<Hb, Wbc>> }
ExplanationLists ==
    { << >>, << [parameter_id |-> 1, meaning |-> "oxygen carrier"] >> }

ChatIdle ==
    /\ chat_pc = "idle"
    /\ question = << >>
    /\ parameters = << >>
    /\ explanations = << >>
    /\ context_str = << >>
    /\ groq_calls = << >>
    /\ response = ""

\* A caller invokes generate_response.
Request ==
    /\ chat_pc = "idle"
    /\ question' \in Questions
    /\ parameters' \in ParameterLists
    /\ explanations' \in ExplanationLists
    /\ chat_pc' = "check"
    /\ UNCHANGED <<context_str, groq_calls, response, auditVars>>

\* Lines 63-73: the rule-based safety layer.
KeywordCheck ==
    /\ chat_pc = "check"
    /\ IF IsUnsafe(question)
       THEN /\ response' = RefusalMessage
            /\ chat_pc' = "returned"
       ELSE /\ response' = response
            /\ chat_pc' = "context"
    /\ UNCHANGED <<question, parameters, explanations, context_str, groq_calls,
                   auditVars>>

\* Lines 75-78.
BuildContext ==
    /\ chat_pc = "context"
    /\ context_str' = BuildContextJson(parameters, explanations)
    /\ chat_pc' = "call"
    /\ UNCHANGED <<question, parameters, explanations, groq_calls, response,
                   auditVars>>

\* Lines 80-97: the completion call, which answers or raises.
CallGroq ==
    /\ chat_pc = "call"
    /\ groq_calls' = Append(groq_calls, question)
    /\ \E ok \in BOOLEAN : response' = IF ok THEN Completion ELSE FallbackMessage
    /\ chat_pc' = "returned"
    /\ UNCHANGED <<question, parameters, explanations, context_str, auditVars>>

AuditIdle ==
    /\ family_connections = << >>
    /\ profiles = [u \in Users |-> NoProfile]
    /\ initial = << >>
    /\ pc = "idle"
    /\ connections = << >>
    /\ idx = 0
    /\ sender_actual_name = None
    /\ trace = << >>
    /\ updates = << >>
    /\ runs = 0
    /\ finals = << >>
    /\ aborts = 0

----------------------------------------------------------------------------
Init == AuditInit /\ ChatIdle

Next == Start \/ FetchProfile \/ Inspect \/ Update \/ Fixed \/ Finish \/ Rerun

Spec == Init /\ [][Next]_vars

NextAbort == Start \/ FetchProfile \/ Inspect \/ Update \/ Fixed \/ Finish \/ Abort

SpecAbort == Init /\ [][NextAbort]_vars

InitChat == AuditIdle /\ ChatIdle

NextChat == Request \/ KeywordCheck \/ BuildContext \/ CallGroq

SpecChat == InitChat /\ [][NextChat]_vars

----------------------------------------------------------------------------
\* Vocabulary of the properties.

HasProfile(user_id) == profiles[user_id] # NoProfile

\* The initiator's canonical name: full_name, or else profile_name.
Canon(user_id) == CanonicalName(profiles[user_id])

StoredRow(id) ==
    family_connections[CHOOSE k \in DOMAIN family_connections :
                          family_connections[k].id = id]

\* The restored invariant of a connection record.
Restored(row) ==
    /\ row.receiver_display_name = Canon(row.user_id)
    /\ row.sender_display_name = None

\* The violation signature: (b) target-facing name null, or (a) initiator-facing
\* name equal to the initiator's canonical name.
Signature(row) ==
    \/ row.receiver_display_name = None
    \/ row.sender_display_name = Canon(row.user_id)

UpdatedIds == { updates[j].id : j \in DOMAIN updates }

Printed(kind, id) ==
    \E j \in DOMAIN trace : trace[j].kind = kind /\ trace[j].id = id

\* What one uninterrupted run makes of a table.
RepairedRow(row) ==
    IF HasProfile(row.user_id) /\ Signature(row)
    THEN [row EXCEPT !.sender_display_name = None,
                     !.receiver_display_name = Canon(row.user_id)]
    ELSE row
AuditAll(table) == [k \in DOMAIN table |-> RepairedRow(table[k])]

----------------------------------------------------------------------------
\* C1: when a run has completed, every record it fetched whose initiator has a
\* profile and which showed the violation signature at the start of the run
\* (target-facing name null, or initiator-facing name equal to the canonical
\* name) has its target-facing name equal to the canonical name and its
\* initiator-facing name null.
C1_ViolatingRecordsRepaired ==
    pc = "done" =>
        \A k \in DOMAIN connections :
            (HasProfile(connections[k].user_id) /\ Signature(connections[k]))
                => Restored(StoredRow(connections[k].id))

\* The spec's example: canonical name "Alice", record ("Alice", null) repaired
\* to (null, "Alice").
C1_Witness ==
    /\ pc = "done"
    /\ \E k \in DOMAIN connections :
          /\ Canon(connections[k].user_id) = "Alice"
          /\ connections[k].sender_display_name = "Alice"
          /\ connections[k].receiver_display_name = None
          /\ connections[k].id \in UpdatedIds
          /\ StoredRow(connections[k].id).sender_display_name = None
          /\ StoredRow(connections[k].id).receiver_display_name = "Alice"

\* C2 as stated: after a complete run every record whose initiator has a
\* profile satisfies the restored invariant.
C2_AllRecordsRestored ==
    pc = "done" =>
        \A k \in DOMAIN family_connections :
            HasProfile(family_connections[k].user_id)
                => Restored(family_connections[k])

\* C2, amended: after a complete run every record whose initiator has a profile
\* either satisfies the restored invariant, or is exactly as it was fetched and
\* showed neither violation signature (target-facing name non-null and
\* initiator-facing name different from the canonical name).
C2_RestoredOrUntouched ==
    pc = "done" =>
        \A k \in DOMAIN family_connections :
            HasProfile(family_connections[k].user_id)
                => \/ Restored(family_connections[k])
                   \/ /\ family_connections[k] = connections[k]
                      /\ ~Signature(connections[k])

C2_Witness ==
    /\ pc = "done"
    /\ \E k, m \in DOMAIN family_connections :
          /\ HasProfile(family_connections[k].user_id)
          /\ family_connections[k].sender_display_name = "Nick"
          /\ family_connections[k].receiver_display_name # Canon(family_connections[k].user_id)
          /\ family_connections[m].id \in UpdatedIds
          /\ Restored(family_connections[m])

\* C3 as stated: no update is issued for a record that already satisfies the
\* restored invariant, whatever the profile's name fields hold.
C3_NoUpdateWhenRestored ==
    \A j \in DOMAIN updates :
        \A k \in DOMAIN connections :
            connections[k].id = updates[j].id => ~Restored(connections[k])

\* C4: every completed run leaves the table as the first completed run left it.
C4_SecondRunChangesNothing ==
    \A a, b \in DOMAIN finals : finals[a] = finals[b]

C4_Witness ==
    /\ pc = "done"
    /\ runs = 2
    /\ finals[1] # initial
    /\ finals[2] = finals[1]

C6_RerunAfterAbortIsSafe ==
    pc = "done" => family_connections = AuditAll(initial)

\* A run killed after its updates, then a complete run that had nothing to do.
C6_Witness ==
    /\ pc = "done"
    /\ aborts = 1
    /\ family_connections # initial
    /\ updates = << >>

\* C7: for every record the loop has passed, an update was issued if and only
\* if the initiator's profile exists and one of the two conditions held; a
\* record without an update is as it was fetched.
C7_UpdateIffSignature ==
    /\ \A k \in DOMAIN connections :
          k < idx =>
             /\ connections[k].id \in UpdatedIds
                   <=> (HasProfile(connections[k].user_id) /\ Signature(connections[k]))
             /\ connections[k].id \notin UpdatedIds
                   => StoredRow(connections[k].id) = connections[k]
    /\ \A j \in DOMAIN updates :
          \E k \in DOMAIN connections : k <= idx /\ connections[k].id = updates[j].id

\* The spec's example: initiator-facing "Nick", target-facing "Alice", canonical
\* name "Alice": no update, while another record of the run is repaired.
C7_Witness ==
    /\ pc = "done"
    /\ \E k, m \in DOMAIN connections :
          /\ Canon(connections[k].user_id) = "Alice"
          /\ connections[k].sender_display_name = "Nick"
          /\ connections[k].receiver_display_name = "Alice"
          /\ connections[k].id \notin UpdatedIds
          /\ StoredRow(connections[k].id) = connections[k]
          /\ connections[m].id \in UpdatedIds

\* C8: a step changes nothing of the stores except the two display-name
\* fields of the row whose identifier is being repaired.
C8_Frame ==
    /\ profiles' = profiles
    /\ DOMAIN family_connections' = DOMAIN family_connections
    /\ \A k \in DOMAIN family_connections :
          /\ family_connections'[k].id = family_connections[k].id
          /\ family_connections'[k].user_id = family_connections[k].user_id
          /\ family_connections'[k].connected_user_id
                = family_connections[k].connected_user_id
          /\ family_connections'[k] # family_connections[k]
                => /\ pc = "update"
                   /\ family_connections[k].id = connections[idx].id
C8_OnlyDisplayNamesOfCurrentRow == [][C8_Frame]_vars

\* An update has been applied while another row keeps a signature of its own.
C8_Witness ==
    /\ pc = "fixed"
    /\ Len(family_connections) = 2
    /\ family_connections[idx] # connections[idx]
    /\ \E k \in DOMAIN family_connections :
          /\ k # idx
          /\ family_connections[k].receiver_display_name = "Nick"
          /\ family_connections[k].sender_display_name = "Nick"

\* C9: every update is bracketed in the output: the record's check and saved
\* display names and FIXING come before it, FIXED comes right after it and
\* before anything for the next record, and a completed run has both entries
\* for every update.
C9_UpdatesAreBracketed ==
    \A j \in DOMAIN updates :
        LET u == updates[j] IN
        /\ u.at >= 1 /\ u.at <= Len(trace)
        /\ trace[u.at].kind = "Fixing" /\ trace[u.at].id = u.id
        /\ \E c \in 1..(u.at - 5) : \E k \in DOMAIN connections :
              /\ connections[k].id = u.id
              /\ trace[c].kind = "Checking"
              /\ trace[c + 3].kind = "SavedSender"
              /\ trace[c + 3].val = << Fmt(connections[k].sender_display_name) >>
              /\ trace[c + 4].kind = "SavedReceiver"
              /\ trace[c + 4].val = << Fmt(connections[k].receiver_display_name) >>
              /\ \A n \in c..u.at : trace[n].id = u.id
        /\ Len(trace) > u.at
              => trace[u.at + 1].kind = "Fixed" /\ trace[u.at + 1].id = u.id
        /\ Len(trace) = u.at => pc = "fixed" /\ j = Len(updates)
        /\ j < Len(updates) => updates[j + 1].at > u.at + 1

C9_Witness ==
    /\ pc = "done"
    /\ Len(updates) = 2
    /\ updates[1].id # updates[2].id
    /\ Printed("Fixed", updates[1].id)
    /\ Printed("Fixed", updates[2].id)

----------------------------------------------------------------------------
\* The question contains keyword k at some position, letter case ignored.
ContainsIgnoringCase(q, k) ==
    \E p \in 0..(Len(q) - Len(k)) :
        \A j \in 1..Len(k) : q[p + j] = k[j] \/ q[p + j] = UpperChar(k[j])

MentionsUnsafeKeyword(q) ==
    \E n \in DOMAIN unsafe_keywords : ContainsIgnoringCase(q, unsafe_keywords[n])

\* C10: no question that contains an unsafe keyword, in any letter case, is
\* sent to the Groq completion API; for such a question the fixed refusal is
\* returned and no context is built.
C10_UnsafeQuestionNeverSent ==
    /\ \A j \in DOMAIN groq_calls : ~MentionsUnsafeKeyword(groq_calls[j])
    /\ (chat_pc \in {"context", "call", "returned"} /\ MentionsUnsafeKeyword(question))
          => /\ chat_pc = "returned"
             /\ response = RefusalMessage
             /\ context_str = << >>
             /\ groq_calls = << >>

C10_Witness ==
    /\ chat_pc = "returned"
    /\ question = <<"c","a","n"," ","y","o","u"," ",
                    "D","i","A","g","N","o","S","e"," ","m","E","?">>
    /\ response = RefusalMessage
    /\ groq_calls = << >>

====
